---- MODULE Spec2Model ----
(***************************************************************************)
(* State-machine model of IRGenerationContext                              *)
(* (libsolidity/codegen/ir/IRGenerationContext.cpp): the code generation   *)
(* worklist, the registry of generated fragments and the two-phase         *)
(* internal dispatch registry.                                             *)
(***************************************************************************)
EXTENDS Integers, Sequences, FiniteSets, TLC

(***************************************************************************)
(* Bounds of the model.                                                    *)
(***************************************************************************)
\* Number of FunctionDefinition nodes of the compilation unit (ids 1..MaxFunctions).
MaxFunctions == 3
\* Largest number of input stack slots of a call signature.
MaxIn == 1

\* The local variable declarations of the function being generated, and the
\* number of newYulVariable calls followed.
MaxVariables == 2

MaxYulVariables == 11

VARIABLES
    m_functions,                          \* registry: name -> rendered fragment
    m_functionGenerationQueue,            \* set of pending FunctionDefinition ids
    m_internalDispatchTargetCandidates,   \* Arity -> set of functions (candidate-only)
    m_internalDispatchMap,                \* Arity -> set of functions (confirmed)
    failed,                               \* the solAssert that threw, or NoError
    last,                                 \* the last call, its argument and what it returned
    pc,                                   \* position of the generation driver
    current,                              \* the function the driver is generating
    everQueued,                           \* driver run: functions ever inserted into the queue
    candidatesSeen,                       \* driver run: functions passed to registerCandidate
    dispatchRequested,                    \* driver run: arities passed to registerDispatch
    returnedNames,                        \* driver run: dispatcher names returned, by call and arity
    everDequeued,                         \* worklist run: functions ever returned by dequeue
    lastDispatch,                         \* the last internalDispatch call: its argument and result
    m_localVariables,                     \* VariableDeclaration -> IRVariable
    m_varCounter,                         \* counter of newYulVariable
    bound,                                \* declarations addLocalVariable has bound
    yulNames,                             \* names newYulVariable has returned, in order
    lastBinding                           \* the last naming or binding call and its result

ctx == <<m_functions, m_functionGenerationQueue,
         m_internalDispatchTargetCandidates, m_internalDispatchMap, failed, last>>
driver == <<pc, current, everQueued, candidatesSeen, dispatchRequested, returnedNames>>
aside == <<everDequeued, lastDispatch, m_localVariables, m_varCounter, bound, yulNames,
           lastBinding>>
vars == <<ctx, driver, aside>>

(***************************************************************************)
(* Values.                                                                 *)
(***************************************************************************)
FunctionIds == 1 .. MaxFunctions
NoFunction == 0 - 1

Arity == [in : 0 .. MaxIn, out : {0}]
NoArity == [in |-> 0 - 1, out |-> 0 - 1]

NoError == "none"
EmptyMap == [a \in {} |-> {}]

\* No representation: what lastBinding holds when a call returned nothing.
NoVariable == [baseName |-> ""]

\* No fragment: what lastDispatch holds before any call and after a failed one.
NoFragment == [function |-> "", branches |-> <<>>]

\* std::to_string of a non-negative integer: its decimal digits.
Digit(d) ==
    CASE d = 0 -> "0" [] d = 1 -> "1" [] d = 2 -> "2" [] d = 3 -> "3" [] d = 4 -> "4"
      [] d = 5 -> "5" [] d = 6 -> "6" [] d = 7 -> "7" [] d = 8 -> "8" [] d = 9 -> "9"

RECURSIVE to_string(_)
to_string(n) ==
    IF n < 10 THEN Digit(n) ELSE to_string(n \div 10) \o Digit(n % 10)

\* The FunctionDefinition nodes of the compilation unit: overloads that are
\* all called "f" (their names differ by the id alone); function f takes
\* f % (MaxIn + 1) input slots, so that some arities are shared by several
\* functions and others belong to one.
\* Beside them the unit holds a definition whose id is 0 (the value reserved
\* for uninitialized function pointers) and a constructor; both can only be
\* handed to internalDispatch.
Constructor == MaxFunctions + 1

Definitions == 0 .. Constructor

ast ==
    [f \in Definitions |->
        [name |-> "f", arity |-> [in |-> f % (MaxIn + 1), out |-> 0],
         isConstructor |-> f = Constructor]]

functionArity(f) == ast[f].arity

functionName(f) == "fun_" \o ast[f].name \o "_" \o to_string(f)

\* Mutant: the name leaves out the number of input slots.
internalDispatchFunctionNameWithoutIn(arity) ==
    "dispatch_internal" \o "_out_" \o to_string(arity.out)

internalDispatchFunctionName(arity) ==
    "dispatch_internal" \o "_in_" \o to_string(arity.in) \o "_out_" \o to_string(arity.out)


(***************************************************************************)
(* std::map<Arity, std::set<FunctionDefinition const*>> as a function      *)
(* whose domain is the set of keys.                                        *)
(***************************************************************************)
count(map, key) == IF key \in DOMAIN map THEN 1 ELSE 0

put(map, key, value) ==
    [k \in DOMAIN map \cup {key} |-> IF k = key THEN value ELSE map[k]]

erase(map, key) == [k \in DOMAIN map \ {key} |-> map[k]]

\* operator[]: a missing key is inserted with an empty set.
subscript(map, key) == IF key \in DOMAIN map THEN map ELSE put(map, key, {})

(***************************************************************************)
(* The registry m_functions (MultiUseYulFunctionCollector): contains() and *)
(* createFunction(), which renders a fragment only when the name is new.   *)
(***************************************************************************)
contains(name) == name \in DOMAIN m_functions

createFunction(name, fragment) ==
    IF contains(name) THEN m_functions ELSE (name :> fragment) @@ m_functions

\* The fragment the generation routine renders for a function body.
functionBody(f) == [function |-> functionName(f), cases |-> {}]

(***************************************************************************)
(* The worklist: a std::set ordered by ASTNode::CompareByID.               *)
(***************************************************************************)
CompareByID(f, g) == f < g

\* Mutant: the last element of the order instead of the first.
rbegin(queue) == CHOOSE f \in queue : \A g \in queue : ~CompareByID(f, g)

begin(queue) == CHOOSE f \in queue : \A g \in queue : ~CompareByID(g, f)

\* Mutant: the queue is assigned the function instead of gaining it.
insertReplacingQueue(queue, f) ==
    IF ~contains(functionName(f)) THEN {f} ELSE queue

\* Mutant: the function is inserted whether or not the registry holds its name.
insertIgnoringRegistry(queue, f) == queue \cup {f}

\* Lines 40-41: insert unless the registry holds the name.
insertUnlessGenerated(queue, f) ==
    IF ~contains(functionName(f)) THEN queue \cup {f} ELSE queue

\* Mutant: the registry is not consulted.
enqueueWithoutLookup(f) ==
    [queue |-> m_functionGenerationQueue \cup {f},
     ret   |-> functionName(f)]

enqueueFunctionForCodeGeneration(f) ==
    [queue |-> insertUnlessGenerated(m_functionGenerationQueue, f),
     ret   |-> functionName(f)]

\* Mutant: the whole queue is erased, not its first element.
dequeueErasingAll ==
    IF m_functionGenerationQueue = {}
    THEN [queue |-> m_functionGenerationQueue, ret |-> NoFunction,
          failed |-> "EmptyWorklist"]
    ELSE [queue |-> {},
          ret |-> begin(m_functionGenerationQueue),
          failed |-> NoError]

\* Mutant: the first element is returned and stays in the queue.
dequeueWithoutErase ==
    IF m_functionGenerationQueue = {}
    THEN [queue |-> m_functionGenerationQueue, ret |-> NoFunction,
          failed |-> "EmptyWorklist"]
    ELSE [queue |-> m_functionGenerationQueue,
          ret |-> begin(m_functionGenerationQueue),
          failed |-> NoError]

dequeueFunctionForCodeGeneration ==
    IF m_functionGenerationQueue = {}
    THEN [queue |-> m_functionGenerationQueue, ret |-> NoFunction,
          failed |-> "EmptyWorklist"]
    ELSE [queue |-> m_functionGenerationQueue \ {begin(m_functionGenerationQueue)},
          ret |-> begin(m_functionGenerationQueue),
          failed |-> NoError]

(***************************************************************************)
(* The internal dispatch registry.                                         *)
(***************************************************************************)
\* Mutant: only the first function of the set is enqueued.
enqueueFirstOnly(queue, functions) ==
    IF functions = {} THEN queue
    ELSE insertUnlessGenerated(queue, begin(functions))

\* Lines 176-177: enqueue every function of the set, in the set's order.
RECURSIVE enqueueAll(_, _)
enqueueAll(queue, functions) ==
    IF functions = {} THEN queue
    ELSE enqueueAll(insertUnlessGenerated(queue, begin(functions)),
                    functions \ {begin(functions)})

\* Mutant: the candidate map is not cleared.
consumeKeepingCandidates ==
    [candidates |-> m_internalDispatchTargetCandidates,
     map        |-> EmptyMap,
     result     |-> m_internalDispatchMap,
     failed     |-> IF \A a \in DOMAIN m_internalDispatchMap : m_internalDispatchMap[a] # {}
                    THEN NoError ELSE "EmptyDispatchGroup"]

\* Mutant: the returned map is not checked for empty groups.
consumeWithoutAssert ==
    [candidates |-> EmptyMap,
     map        |-> EmptyMap,
     result     |-> m_internalDispatchMap,
     failed     |-> NoError]

\* Mutant: the groups are checked before the maps are cleared, and a failing
\* call leaves the maps as they were.
consumeCheckingBeforeClear ==
    IF \A a \in DOMAIN m_internalDispatchMap : m_internalDispatchMap[a] # {}
    THEN [candidates |-> EmptyMap, map |-> EmptyMap,
          result |-> m_internalDispatchMap, failed |-> NoError]
    ELSE [candidates |-> m_internalDispatchTargetCandidates,
          map |-> m_internalDispatchMap,
          result |-> EmptyMap, failed |-> "EmptyDispatchGroup"]

consumeInternalDispatchMap ==
    [candidates |-> EmptyMap,
     map        |-> EmptyMap,
     result     |-> m_internalDispatchMap,
     failed     |-> IF \A a \in DOMAIN m_internalDispatchMap : m_internalDispatchMap[a] # {}
                    THEN NoError ELSE "EmptyDispatchGroup"]

\* Mutant: the candidate set of the arity is overwritten by {f}.
storeCandidateOverwriting(f) ==
    put(m_internalDispatchTargetCandidates, functionArity(f), {f})

\* Lines 149-150: the candidate set of the arity, created when missing, gains f.
storeCandidate(f) ==
    put(m_internalDispatchTargetCandidates, functionArity(f),
        subscript(m_internalDispatchTargetCandidates, functionArity(f))[functionArity(f)]
            \cup {f})

\* Mutant: the function joins the confirmed set but is not enqueued.
addConfirmedWithoutEnqueue(f) ==
    [map   |-> put(m_internalDispatchMap, functionArity(f),
                   subscript(m_internalDispatchMap, functionArity(f))[functionArity(f)]
                       \cup {f}),
     queue |-> m_functionGenerationQueue]

\* Mutant: the function is enqueued and the confirmed set is left as it was.
addConfirmedWithoutInsert(f) ==
    [map   |-> m_internalDispatchMap,
     queue |-> enqueueFunctionForCodeGeneration(f).queue]

\* Lines 155-156: the confirmed set of the arity gains f, and f is enqueued.
addConfirmed(f) ==
    [map   |-> put(m_internalDispatchMap, functionArity(f),
                   subscript(m_internalDispatchMap, functionArity(f))[functionArity(f)]
                       \cup {f}),
     queue |-> enqueueFunctionForCodeGeneration(f).queue]

registerInternalDispatchTargetCandidate(f) ==
    LET arity == functionArity(f) IN
    IF ~(count(m_internalDispatchMap, arity) = 0
         \/ count(m_internalDispatchTargetCandidates, arity) = 0)
    THEN [candidates |-> m_internalDispatchTargetCandidates,
          map        |-> m_internalDispatchMap,
          queue      |-> m_functionGenerationQueue,
          ret        |-> "",
          branch     |-> "assert",
          failed     |-> "DispatchStateConflict"]
    ELSE IF count(m_internalDispatchMap, arity) = 0
    THEN [candidates |-> storeCandidate(f),
          map        |-> m_internalDispatchMap,
          queue      |-> m_functionGenerationQueue,
          ret        |-> internalDispatchFunctionName(arity),
          branch     |-> "candidate",
          failed     |-> NoError]
    ELSE [candidates |-> m_internalDispatchTargetCandidates,
          map        |-> addConfirmed(f).map,
          queue      |-> addConfirmed(f).queue,
          ret        |-> internalDispatchFunctionName(arity),
          branch     |-> "confirmed",
          failed     |-> NoError]

\* Mutant: the candidates are copied and their entry is not erased.
promoteKeepingCandidates(arity) ==
    IF count(m_internalDispatchTargetCandidates, arity) > 0
    THEN [candidates |-> m_internalDispatchTargetCandidates,
          map        |-> put(m_internalDispatchMap, arity,
                             m_internalDispatchTargetCandidates[arity])]
    ELSE [candidates |-> m_internalDispatchTargetCandidates,
          map        |-> m_internalDispatchMap]

\* Lines 168-173: the candidates of the arity become its confirmed set.
promote(arity) ==
    IF count(m_internalDispatchTargetCandidates, arity) > 0
    THEN [candidates |-> erase(m_internalDispatchTargetCandidates, arity),
          map        |-> put(m_internalDispatchMap, arity,
                             m_internalDispatchTargetCandidates[arity])]
    ELSE [candidates |-> m_internalDispatchTargetCandidates,
          map        |-> m_internalDispatchMap]

registerInternalDispatch(arity) ==
    IF ~(count(m_internalDispatchMap, arity) = 0
         \/ count(m_internalDispatchTargetCandidates, arity) = 0)
    THEN [candidates |-> m_internalDispatchTargetCandidates,
          map        |-> m_internalDispatchMap,
          queue      |-> m_functionGenerationQueue,
          ret        |-> "",
          branch     |-> "assert",
          failed     |-> "DispatchStateConflict"]
    ELSE IF count(m_internalDispatchMap, arity) = 0
    THEN [candidates |-> promote(arity).candidates,
          map        |-> subscript(promote(arity).map, arity),
          queue      |-> enqueueAll(m_functionGenerationQueue,
                                    subscript(promote(arity).map, arity)[arity]),
          ret        |-> internalDispatchFunctionName(arity),
          branch     |-> IF count(m_internalDispatchTargetCandidates, arity) > 0
                         THEN "promoted" ELSE "created",
          failed     |-> NoError]
    ELSE [candidates |-> m_internalDispatchTargetCandidates,
          map        |-> m_internalDispatchMap,
          queue      |-> m_functionGenerationQueue,
          ret        |-> internalDispatchFunctionName(arity),
          branch     |-> "confirmed",
          failed     |-> NoError]

(***************************************************************************)
(* Calls on the context.  A call is possible while no assertion has        *)
(* thrown; `last` records the call, the branch it took, its argument and    *)
(* its return value.                                                       *)
(***************************************************************************)
Call(op, branch, fn, arity, name, result) ==
    [op |-> op, branch |-> branch, fn |-> fn, arity |-> arity, name |-> name,
     result |-> result]

Init ==
    /\ m_functions = EmptyMap
    /\ m_functionGenerationQueue = {}
    /\ m_internalDispatchTargetCandidates = EmptyMap
    /\ m_internalDispatchMap = EmptyMap
    /\ failed = NoError
    /\ last = Call("construct", "", NoFunction, NoArity, "", EmptyMap)
    /\ pc = "generate"
    /\ current = NoFunction
    /\ everQueued = {}
    /\ candidatesSeen = {}
    /\ dispatchRequested = {}
    /\ returnedNames = {}
    /\ everDequeued = {}
    /\ lastDispatch = [order |-> <<>>, branch |-> "construct", name |-> "", ret |-> NoFragment]
    /\ m_localVariables = EmptyMap
    /\ m_varCounter = 0
    /\ bound = EmptyMap
    /\ yulNames = <<>>
    /\ lastBinding = [op |-> "construct", decl |-> NoFunction, ret |-> NoVariable]

Enqueue(f) ==
    /\ failed = NoError
    /\ m_functionGenerationQueue' = enqueueFunctionForCodeGeneration(f).queue
    /\ last' = Call("enqueue", "", f, NoArity, enqueueFunctionForCodeGeneration(f).ret, EmptyMap)
    /\ UNCHANGED <<m_functions, m_internalDispatchTargetCandidates,
                   m_internalDispatchMap, failed>>

Dequeue ==
    /\ failed = NoError
    /\ m_functionGenerationQueue' = dequeueFunctionForCodeGeneration.queue
    /\ failed' = dequeueFunctionForCodeGeneration.failed
    /\ last' = Call("dequeue", "", dequeueFunctionForCodeGeneration.ret, NoArity, "", EmptyMap)
    /\ UNCHANGED <<m_functions, m_internalDispatchTargetCandidates,
                   m_internalDispatchMap>>

RegisterCandidate(f) ==
    /\ failed = NoError
    /\ m_internalDispatchTargetCandidates' = registerInternalDispatchTargetCandidate(f).candidates
    /\ m_internalDispatchMap' = registerInternalDispatchTargetCandidate(f).map
    /\ m_functionGenerationQueue' = registerInternalDispatchTargetCandidate(f).queue
    /\ failed' = registerInternalDispatchTargetCandidate(f).failed
    /\ last' = Call("registerCandidate", registerInternalDispatchTargetCandidate(f).branch, f, functionArity(f),
                    registerInternalDispatchTargetCandidate(f).ret, EmptyMap)
    /\ UNCHANGED <<m_functions>>

RegisterDispatch(arity) ==
    /\ failed = NoError
    /\ m_internalDispatchTargetCandidates' = registerInternalDispatch(arity).candidates
    /\ m_internalDispatchMap' = registerInternalDispatch(arity).map
    /\ m_functionGenerationQueue' = registerInternalDispatch(arity).queue
    /\ failed' = registerInternalDispatch(arity).failed
    /\ last' = Call("registerDispatch", registerInternalDispatch(arity).branch, NoFunction, arity,
                    registerInternalDispatch(arity).ret, EmptyMap)
    /\ UNCHANGED <<m_functions>>

ConsumeDispatchMap ==
    /\ failed = NoError
    /\ m_internalDispatchTargetCandidates' = consumeInternalDispatchMap.candidates
    /\ m_internalDispatchMap' = consumeInternalDispatchMap.map
    /\ failed' = consumeInternalDispatchMap.failed
    /\ last' = Call("consumeDispatchMap", "", NoFunction, NoArity, "",
                    consumeInternalDispatchMap.result)
    /\ UNCHANGED <<m_functions, m_functionGenerationQueue>>

\* The generation routine registers the fragment it rendered for f.
RegisterFragment(f) ==
    /\ failed = NoError
    /\ m_functions' = createFunction(functionName(f), functionBody(f))
    /\ last' = Call("createFunction", "", f, NoArity, functionName(f), EmptyMap)
    /\ UNCHANGED <<m_functionGenerationQueue, m_internalDispatchTargetCandidates,
                   m_internalDispatchMap, failed>>

(***************************************************************************)
(* Spec: the calls in any order, with any arguments.                       *)
(***************************************************************************)
AnyEnqueue == \E f \in FunctionIds : Enqueue(f) /\ UNCHANGED <<driver, aside>>
AnyDequeue == Dequeue /\ UNCHANGED <<driver, aside>>
AnyRegisterCandidate == \E f \in FunctionIds : RegisterCandidate(f) /\ UNCHANGED <<driver, aside>>
AnyRegisterDispatch == \E a \in Arity : RegisterDispatch(a) /\ UNCHANGED <<driver, aside>>
AnyConsumeDispatchMap == ConsumeDispatchMap /\ UNCHANGED <<driver, aside>>
AnyRegisterFragment == \E f \in FunctionIds : RegisterFragment(f) /\ UNCHANGED <<driver, aside>>

Next ==
    \/ AnyEnqueue
    \/ AnyDequeue
    \/ AnyRegisterCandidate
    \/ AnyRegisterDispatch
    \/ AnyConsumeDispatchMap
    \/ AnyRegisterFragment

Spec == Init /\ [][Next]_vars

(***************************************************************************)
(* DriverSpec: the generation pass.  The top-level code of the contract is *)
(* generated first (current = NoFunction); then the driver loop dequeues a *)
(* function, runs its generation routine, which may call enqueue,          *)
(* registerCandidate and registerDispatch, and registers the fragment;     *)
(* once the worklist is empty the dispatch map is consumed.                *)
(***************************************************************************)
Returned(call) == [op |-> call.op, arity |-> call.arity, name |-> call.name]

GenerateEnqueue ==
    \E f \in FunctionIds :
        /\ pc = "generate"
        /\ Enqueue(f)
        /\ everQueued' = everQueued \cup (m_functionGenerationQueue' \ m_functionGenerationQueue)
        /\ UNCHANGED <<pc, current, candidatesSeen, dispatchRequested, returnedNames, aside>>

GenerateRegisterCandidate ==
    \E f \in FunctionIds :
        /\ pc = "generate"
        /\ RegisterCandidate(f)
        /\ everQueued' = everQueued \cup (m_functionGenerationQueue' \ m_functionGenerationQueue)
        /\ candidatesSeen' = candidatesSeen \cup {f}
        /\ returnedNames' = returnedNames \cup {Returned(last')}
        /\ UNCHANGED <<pc, current, dispatchRequested, aside>>

GenerateRegisterDispatch ==
    \E a \in Arity :
        /\ pc = "generate"
        /\ RegisterDispatch(a)
        /\ everQueued' = everQueued \cup (m_functionGenerationQueue' \ m_functionGenerationQueue)
        /\ dispatchRequested' = dispatchRequested \cup {a}
        /\ returnedNames' = returnedNames \cup {Returned(last')}
        /\ UNCHANGED <<pc, current, candidatesSeen, aside>>

\* The generation routine returns; the fragment of the function is registered.
GenerateDone ==
    /\ pc = "generate"
    /\ IF current = NoFunction
       THEN failed = NoError /\ UNCHANGED ctx
       ELSE RegisterFragment(current)
    /\ pc' = "loop"
    /\ current' = NoFunction
    /\ UNCHANGED <<everQueued, candidatesSeen, dispatchRequested, returnedNames, aside>>

DriverDequeue ==
    /\ pc = "loop"
    /\ m_functionGenerationQueue # {}
    /\ Dequeue
    /\ current' = dequeueFunctionForCodeGeneration.ret
    /\ pc' = "generate"
    /\ UNCHANGED <<everQueued, candidatesSeen, dispatchRequested, returnedNames, aside>>

DriverConsume ==
    /\ pc = "loop"
    /\ m_functionGenerationQueue = {}
    /\ ConsumeDispatchMap
    /\ pc' = "done"
    /\ UNCHANGED <<current, everQueued, candidatesSeen, dispatchRequested, returnedNames, aside>>

DriverNext ==
    \/ GenerateEnqueue
    \/ GenerateRegisterCandidate
    \/ GenerateRegisterDispatch
    \/ GenerateDone
    \/ DriverDequeue
    \/ DriverConsume

DriverSpec == Init /\ [][DriverNext]_vars

(***************************************************************************)
(* Properties.                                                             *)
(***************************************************************************)
Functions(map) == UNION {map[a] : a \in DOMAIN map}

\* C1: in every state reachable by any interleaving of the calls, no arity is
\* a key of both the candidate map and the confirmed map, and the assertion
\* at the top of registerCandidate and registerDispatch has never failed.
C1_NeverCandidateAndConfirmed ==
    /\ DOMAIN m_internalDispatchTargetCandidates \cap DOMAIN m_internalDispatchMap = {}
    /\ failed # "DispatchStateConflict"

\* Reached: registerDispatch has just promoted the candidates of an arity
\* while another arity is still candidate-only.
C1_Witness ==
    /\ last.op = "registerDispatch"
    /\ last.arity \in DOMAIN m_internalDispatchMap
    /\ m_internalDispatchMap[last.arity] # {}
    /\ DOMAIN m_internalDispatchTargetCandidates # {}

\* C2: when the driver has drained the worklist and consumeDispatchMap has
\* returned, the group returned for every arity registerDispatch was called
\* on is exactly the set of functions passed to registerCandidate with that
\* arity, and each of them was put in the worklist and has a fragment in the
\* registry.
C2_ConsumedGroupsComplete ==
    (pc = "done" /\ failed = NoError) =>
        \A a \in dispatchRequested :
            /\ a \in DOMAIN last.result
            /\ last.result[a] = {f \in candidatesSeen : functionArity(f) = a}
            /\ \A f \in last.result[a] :
                   f \in everQueued /\ contains(functionName(f))

\* Reached: a pass that ends with a returned group of two functions and a
\* second returned group.
C2_Witness ==
    /\ pc = "done"
    /\ failed = NoError
    /\ last.op = "consumeDispatchMap"
    /\ Cardinality(DOMAIN last.result) >= 2
    /\ \E a \in dispatchRequested : Cardinality(last.result[a]) >= 2

\* The entries of the map with keys other than a are the same in both maps.
SameElsewhere(map1, map2, a) ==
    /\ DOMAIN map1 \ {a} = DOMAIN map2 \ {a}
    /\ \A b \in DOMAIN map1 \ {a} : map1[b] = map2[b]

\* A step is registerDispatch(a) called while a is candidate-only.
PromotionStep ==
    /\ last'.op = "registerDispatch"
    /\ last'.arity \in DOMAIN m_internalDispatchTargetCandidates
    /\ last'.arity \notin DOMAIN m_internalDispatchMap

\* What every such step does to the two maps.
PromotionMoves ==
    /\ last'.arity \in DOMAIN m_internalDispatchMap'
    /\ m_internalDispatchMap'[last'.arity] = m_internalDispatchTargetCandidates[last'.arity]
    /\ last'.arity \notin DOMAIN m_internalDispatchTargetCandidates'
    /\ SameElsewhere(m_internalDispatchTargetCandidates',
                     m_internalDispatchTargetCandidates, last'.arity)
    /\ SameElsewhere(m_internalDispatchMap', m_internalDispatchMap, last'.arity)

\* C3 as stated: registerDispatch(a) on a candidate-only arity moves every
\* candidate of a into the confirmed set of a, removes the candidate entry of
\* a, leaves the entries of the other arities alone, and every one of those
\* functions is in the pending set afterwards.
C3_AsStated ==
    [][PromotionStep =>
        /\ PromotionMoves
        /\ m_internalDispatchTargetCandidates[last'.arity] \subseteq m_functionGenerationQueue'
      ]_vars

\* C3 amended: registerDispatch(a) on a candidate-only arity moves every
\* candidate of a into the confirmed set of a, removes the candidate entry of
\* a, leaves the entries of the other arities alone, and adds to the pending
\* set exactly the candidates whose fragment is not yet in the registry; a
\* candidate that was already generated is not inserted.
C3_PromotionEnqueuesUngenerated ==
    [][PromotionStep =>
        /\ PromotionMoves
        /\ m_functionGenerationQueue' =
               m_functionGenerationQueue \cup
                   {f \in m_internalDispatchTargetCandidates[last'.arity] :
                        functionName(f) \notin DOMAIN m_functions}
        /\ m_functions' = m_functions
        /\ failed' = NoError
      ]_vars

\* Reached: a promotion of two candidates, one already generated (and not
\* pending), the other inserted into the pending set, with another arity
\* still candidate-only.
C3_Witness ==
    /\ last.op = "registerDispatch"
    /\ last.branch = "promoted"
    /\ \E f, g \in m_internalDispatchMap[last.arity] :
           /\ contains(functionName(f)) /\ f \notin m_functionGenerationQueue
           /\ ~contains(functionName(g)) /\ g \in m_functionGenerationQueue
    /\ DOMAIN m_internalDispatchTargetCandidates # {}

\* C4: registerDispatch(a) on a confirmed arity changes neither map nor the
\* pending set and returns the name an earlier registerDispatch(a) returned;
\* over all calls of registerDispatch and registerCandidate, the names
\* returned for one arity are equal and those for distinct arities differ.
C4_RegisterDispatchIdempotent ==
    [][/\ \A p, q \in returnedNames' : (p.arity = q.arity) <=> (p.name = q.name)
       /\ (last'.op = "registerDispatch" /\ last'.arity \in DOMAIN m_internalDispatchMap) =>
            /\ m_internalDispatchTargetCandidates' = m_internalDispatchTargetCandidates
            /\ m_internalDispatchMap' = m_internalDispatchMap
            /\ m_functionGenerationQueue' = m_functionGenerationQueue
            /\ failed' = NoError
            /\ \E r \in returnedNames :
                   /\ r.op = "registerDispatch"
                   /\ r.arity = last'.arity
                   /\ r.name = last'.name
      ]_vars

\* Reached: a repeated registerDispatch on an arity whose name was also
\* returned by registerCandidate, after names of two arities were returned.
C4_Witness ==
    /\ last.op = "registerDispatch"
    /\ last.branch = "confirmed"
    /\ m_internalDispatchMap[last.arity] # {}
    /\ \E r \in returnedNames : r.op = "registerCandidate" /\ r.arity = last.arity
    /\ \E r \in returnedNames : r.arity # last.arity

\* C5: registerCandidate(f) for an arity that is not confirmed adds f to the
\* candidate set of that arity and changes nothing else: the pending set,
\* the confirmed map, the registry and the other candidate sets are as
\* before.
C5_CandidateOnlyStored ==
    [][(last'.op = "registerCandidate" /\ last'.arity \notin DOMAIN m_internalDispatchMap) =>
        /\ last'.arity = functionArity(last'.fn)
        /\ last'.arity \in DOMAIN m_internalDispatchTargetCandidates'
        /\ m_internalDispatchTargetCandidates'[last'.arity] =
               (IF last'.arity \in DOMAIN m_internalDispatchTargetCandidates
                THEN m_internalDispatchTargetCandidates[last'.arity] ELSE {})
                   \cup {last'.fn}
        /\ SameElsewhere(m_internalDispatchTargetCandidates',
                         m_internalDispatchTargetCandidates, last'.arity)
        /\ m_functionGenerationQueue' = m_functionGenerationQueue
        /\ m_internalDispatchMap' = m_internalDispatchMap
        /\ m_functions' = m_functions
        /\ failed' = NoError
      ]_vars

\* Reached: a second candidate stored for an arity; it is neither pending
\* nor generated nor confirmed.
C5_Witness ==
    /\ last.op = "registerCandidate"
    /\ last.branch = "candidate"
    /\ Cardinality(m_internalDispatchTargetCandidates[last.arity]) >= 2
    /\ last.fn \notin m_functionGenerationQueue
    /\ ~contains(functionName(last.fn))
    /\ last.fn \notin Functions(m_internalDispatchMap)

\* C6: registerCandidate(g) for an arity with a confirmed group puts g in the
\* confirmed set of the arity and enqueues g at once (g joins the pending set
\* unless its fragment is already in the registry); the candidate map is
\* unchanged and has no entry for the arity.
C6_ConfirmedCandidateEnqueued ==
    [][(last'.op = "registerCandidate" /\ last'.arity \in DOMAIN m_internalDispatchMap) =>
        /\ last'.arity = functionArity(last'.fn)
        /\ DOMAIN m_internalDispatchMap' = DOMAIN m_internalDispatchMap
        /\ m_internalDispatchMap'[last'.arity] =
               m_internalDispatchMap[last'.arity] \cup {last'.fn}
        /\ SameElsewhere(m_internalDispatchMap', m_internalDispatchMap, last'.arity)
        /\ m_functionGenerationQueue' =
               m_functionGenerationQueue \cup
                   (IF functionName(last'.fn) \in DOMAIN m_functions THEN {} ELSE {last'.fn})
        /\ m_internalDispatchTargetCandidates' = m_internalDispatchTargetCandidates
        /\ last'.arity \notin DOMAIN m_internalDispatchTargetCandidates'
        /\ failed' = NoError
      ]_vars

\* Reached: a function registered for a confirmed arity: it is pending and in
\* the confirmed set, next to an earlier member.
C6_Witness ==
    /\ last.op = "registerCandidate"
    /\ last.branch = "confirmed"
    /\ last.fn \in m_functionGenerationQueue
    /\ last.fn \in m_internalDispatchMap[last.arity]
    /\ Cardinality(m_internalDispatchMap[last.arity]) >= 2
    /\ last.arity \notin DOMAIN m_internalDispatchTargetCandidates

\* C7: whenever consumeDispatchMap returns, every arity of the returned map
\* has a non-empty function set, the returned map is the confirmed map as it
\* was before the call, both maps are empty afterwards, and the pending set
\* is as before (the discarded candidates are not enqueued).
C7_ConsumeReturnsConfirmedAndClears ==
    [][(last'.op = "consumeDispatchMap" /\ failed' = NoError) =>
        /\ \A a \in DOMAIN last'.result : last'.result[a] # {}
        /\ last'.result = m_internalDispatchMap
        /\ m_internalDispatchTargetCandidates' = EmptyMap
        /\ m_internalDispatchMap' = EmptyMap
        /\ m_functionGenerationQueue' = m_functionGenerationQueue
        /\ m_functions' = m_functions
      ]_vars

\* Reached: consumeDispatchMap has returned two groups, one of them with two
\* functions, and both maps are empty.
C7_Witness ==
    /\ last.op = "consumeDispatchMap"
    /\ failed = NoError
    /\ Cardinality(DOMAIN last.result) >= 2
    /\ \E a \in DOMAIN last.result : Cardinality(last.result[a]) >= 2
    /\ m_internalDispatchTargetCandidates = EmptyMap
    /\ m_internalDispatchMap = EmptyMap

\* C8 as stated: in every run of the calls, every arity of the confirmed map
\* at the moment consumeDispatchMap is called has at least one function
\* (last.result is the confirmed map taken by the call).
C8_AsStated ==
    last.op = "consumeDispatchMap" =>
        \A a \in DOMAIN last.result : last.result[a] # {}

\* C8 amended: a confirmed group can be empty when consumeDispatchMap is
\* called (registerDispatch on an arity without candidates creates one);
\* consumeDispatchMap returns exactly when every arity of the confirmed map
\* it took has at least one function, and fails with EmptyDispatchGroup
\* otherwise, so no empty group is ever finalized for emission.
C8_EmptyGroupNeverReturned ==
    last.op = "consumeDispatchMap" =>
        /\ failed \in {NoError, "EmptyDispatchGroup"}
        /\ (failed = NoError) <=> (\A a \in DOMAIN last.result : last.result[a] # {})

\* Reached: a consumption that found no empty group and returned a confirmed
\* group with its functions.
C8_Witness ==
    /\ last.op = "consumeDispatchMap"
    /\ failed = NoError
    /\ \E a \in DOMAIN last.result : last.result[a] # {}

\* C9: under the driver loop, whenever the pending set is empty at the end
\* of a loop iteration, every function that was ever inserted into the
\* pending set has a fragment under its name in the registry.
C9_DrainedMeansGenerated ==
    (pc \in {"loop", "done"} /\ m_functionGenerationQueue = {}) =>
        \A f \in everQueued : functionName(f) \in DOMAIN m_functions

\* Reached: the loop has drained a worklist that held every function.
C9_Witness ==
    /\ pc = "loop"
    /\ m_functionGenerationQueue = {}
    /\ everQueued = FunctionIds
    /\ last.op = "createFunction"

\* C10: enqueue of a not yet generated function leaves exactly one pending
\* entry for it: the first enqueue adds the function to the pending set, a
\* further enqueue while it is pending leaves the pending set unchanged, the
\* other pending entries stay, and every such call returns the same name,
\* "fun_" + name + "_" + id.
C10_EnqueueTwiceOneEntry ==
    [][(last'.op = "enqueue" /\ functionName(last'.fn) \notin DOMAIN m_functions) =>
        /\ m_functionGenerationQueue' = m_functionGenerationQueue \cup {last'.fn}
        /\ last'.fn \in m_functionGenerationQueue =>
               m_functionGenerationQueue' = m_functionGenerationQueue
        /\ last'.name = "fun_f_" \o ToString(last'.fn)
        /\ (last.op = "enqueue" /\ last.fn = last'.fn) => last'.name = last.name
      ]_vars

\* Reached: a not yet generated function was enqueued and is pending next to
\* another function.
C10_Witness ==
    /\ last.op = "enqueue"
    /\ last.fn \in m_functionGenerationQueue
    /\ ~contains(functionName(last.fn))
    /\ Cardinality(m_functionGenerationQueue) >= 2

(***************************************************************************)
(* WorklistSpec: the worklist alone.  Any function is enqueued at any      *)
(* time, dequeue is called at any time (also on an empty worklist), and a  *)
(* function that was dequeued gets its fragment registered at some later   *)
(* time.                                                                   *)
(***************************************************************************)
WorklistEnqueue ==
    \E f \in FunctionIds :
        /\ Enqueue(f)
        /\ everQueued' = everQueued \cup (m_functionGenerationQueue' \ m_functionGenerationQueue)
        /\ UNCHANGED <<pc, current, candidatesSeen, dispatchRequested, returnedNames,
                       everDequeued, lastDispatch, m_localVariables, m_varCounter, bound,
                       yulNames, lastBinding>>

WorklistDequeue ==
    /\ Dequeue
    /\ everDequeued' = everDequeued \cup (m_functionGenerationQueue \ m_functionGenerationQueue')
    /\ UNCHANGED <<driver, lastDispatch, m_localVariables, m_varCounter, bound, yulNames,
                   lastBinding>>

WorklistGenerated ==
    \E f \in everDequeued :
        /\ RegisterFragment(f)
        /\ UNCHANGED <<driver, aside>>

WorklistNext ==
    \/ WorklistEnqueue
    \/ WorklistDequeue
    \/ WorklistGenerated

WorklistSpec == Init /\ [][WorklistNext]_vars

\* C11 as stated: dequeue on an empty worklist fails; a successful dequeue
\* decreases the pending count by exactly one, leaves the other pending
\* entries in place, and returns a function that was enqueued before and that
\* no earlier dequeue has returned.
C11_AsStated ==
    [][last'.op = "dequeue" =>
        IF m_functionGenerationQueue = {}
        THEN failed' = "EmptyWorklist"
        ELSE /\ failed' = NoError
             /\ Cardinality(m_functionGenerationQueue') =
                    Cardinality(m_functionGenerationQueue) - 1
             /\ m_functionGenerationQueue' = m_functionGenerationQueue \ {last'.fn}
             /\ last'.fn \in everQueued
             /\ last'.fn \notin everDequeued
      ]_vars

\* C11 amended: dequeue on an empty worklist fails and changes nothing; a
\* successful dequeue decreases the pending count by exactly one, leaves the
\* other pending entries in place, and returns a function that was pending:
\* it was inserted by an enqueue and no dequeue has returned it since.  (A
\* function enqueued again before its fragment is registered is returned
\* again.)
C11_DequeueReturnsPending ==
    [][last'.op = "dequeue" =>
            IF m_functionGenerationQueue = {}
            THEN /\ failed' = "EmptyWorklist"
                 /\ m_functionGenerationQueue' = m_functionGenerationQueue
                 /\ last'.fn = NoFunction
            ELSE /\ failed' = NoError
                 /\ Cardinality(m_functionGenerationQueue') =
                        Cardinality(m_functionGenerationQueue) - 1
                 /\ last'.fn \in m_functionGenerationQueue
                 /\ m_functionGenerationQueue' = m_functionGenerationQueue \ {last'.fn}
                 /\ last'.fn \in everQueued
      ]_vars

\* Reached: a dequeue that returned a function while another stayed pending,
\* after an earlier dequeue.
C11_Witness ==
    /\ last.op = "dequeue"
    /\ failed = NoError
    /\ last.fn \in FunctionIds
    /\ last.fn \notin m_functionGenerationQueue
    /\ m_functionGenerationQueue # {}
    /\ Cardinality(everDequeued) >= 2

(***************************************************************************)
(* internalDispatch (lines 205-250).  Its argument is a                    *)
(* std::set<FunctionDefinition const*> with the default comparator, so the *)
(* loop visits the definitions in the order of their addresses: the        *)
(* argument is modelled as a sequence without repetition, any order being  *)
(* one the allocator can produce.                                          *)
(***************************************************************************)
Range(order) == {order[i] : i \in DOMAIN order}

AddressOrders ==
    UNION {{order \in [1 .. n -> Definitions] :
                \A i, j \in 1 .. n : i # j => order[i] # order[j]} :
           n \in 0 .. Cardinality(Definitions)}

\* suffixedVariableNameList(prefix, from, to): "in_0, in_1, ...".
RECURSIVE suffixedVariableNameList(_, _, _)
suffixedVariableNameList(prefix, from, to) ==
    IF from >= to THEN ""
    ELSE prefix \o to_string(from)
            \o (IF from + 1 < to THEN ", " ELSE "")
            \o suffixedVariableNameList(prefix, from + 1, to)

\* Mutant: a definition whose id is 0 passes the checks.
checkTargetAllowingZero(function, arity) ==
    IF functionArity(function) # arity THEN "ArityMismatch"
    ELSE IF ast[function].isConstructor THEN "InvalidDispatchTarget"
    ELSE NoError

\* Lines 211-215: the assertions on one function of the set.
checkTarget(function, arity) ==
    IF functionArity(function) # arity THEN "ArityMismatch"
    ELSE IF ast[function].isConstructor THEN "InvalidDispatchTarget"
    ELSE IF function = 0 THEN "InvalidDispatchTarget"
    ELSE NoError

\* Lines 209-224: the loop stops at the first assertion that fails.
RECURSIVE checkTargets(_, _)
checkTargets(order, arity) ==
    IF order = <<>> THEN NoError
    ELSE IF checkTarget(Head(order), arity) # NoError
         THEN checkTarget(Head(order), arity)
         ELSE checkTargets(Tail(order), arity)

\* Mutant: the last function of the set gets no case.
dispatchCasesWithoutLast(order) ==
    [i \in 1 .. Len(order) - 1 |->
        [funID |-> to_string(order[i]), name |-> functionName(order[i])]]

\* Lines 217-223: one case per function, in the order of the loop.
dispatchCases(order) ==
    [i \in 1 .. Len(order) |->
        [funID |-> to_string(order[i]), name |-> functionName(order[i])]]

\* Lines 228-248: the template, rendered as its header and its branches.
render(funName, arity, cases) ==
    [function |->
        "function " \o funName \o "(fun" \o (IF arity.in > 0 THEN ", " ELSE "")
            \o suffixedVariableNameList("in_", 0, arity.in) \o ")"
            \o (IF arity.out > 0 THEN " -> " ELSE "")
            \o suffixedVariableNameList("out_", 0, arity.out),
     branches |->
        [i \in 1 .. Len(cases) |->
            [label |-> "case " \o cases[i].funID,
             body  |-> suffixedVariableNameList("out_", 0, arity.out)
                          \o (IF arity.out > 0 THEN " := " ELSE "")
                          \o cases[i].name
                          \o "(" \o suffixedVariableNameList("in_", 0, arity.in) \o ")"]]
        \o <<[label |-> "default", body |-> "invalid()"]>>]

\* Mutant: the fragment is rendered and stored on every call.
internalDispatchRendering(order) ==
    IF order = <<>> THEN
        [functions |-> m_functions, name |-> "", ret |-> NoFragment,
         branch |-> "assert", failed |-> "EmptyDispatchSet"]
    ELSE IF checkTargets(order, functionArity(Head(order))) # NoError THEN
        [functions |-> m_functions, name |-> "", ret |-> NoFragment,
         branch |-> "assert", failed |-> checkTargets(order, functionArity(Head(order)))]
    ELSE LET arity == functionArity(Head(order))
             funName == internalDispatchFunctionName(arity)
             fragment == render(funName, arity, dispatchCases(order))
         IN  [functions |-> (funName :> fragment) @@ m_functions,
              name |-> funName, ret |-> fragment,
              branch |-> IF contains(funName) THEN "cached" ELSE "rendered",
              failed |-> NoError]

internalDispatch(order) ==
    IF order = <<>> THEN
        [functions |-> m_functions, name |-> "", ret |-> NoFragment,
         branch |-> "assert", failed |-> "EmptyDispatchSet"]
    ELSE IF checkTargets(order, functionArity(Head(order))) # NoError THEN
        [functions |-> m_functions, name |-> "", ret |-> NoFragment,
         branch |-> "assert", failed |-> checkTargets(order, functionArity(Head(order)))]
    ELSE LET arity == functionArity(Head(order))
             funName == internalDispatchFunctionName(arity)
             functions == createFunction(funName, render(funName, arity, dispatchCases(order)))
         IN  [functions |-> functions,
              name |-> funName, ret |-> functions[funName],
              branch |-> IF contains(funName) THEN "cached" ELSE "rendered",
              failed |-> NoError]

InternalDispatch ==
    \E order \in AddressOrders :
        /\ failed = NoError
        /\ m_functions' = internalDispatch(order).functions
        /\ failed' = internalDispatch(order).failed
        /\ lastDispatch' = [order  |-> order,
                            branch |-> internalDispatch(order).branch,
                            name   |-> internalDispatch(order).name,
                            ret    |-> internalDispatch(order).ret]
        /\ UNCHANGED <<m_functionGenerationQueue, m_internalDispatchTargetCandidates,
                       m_internalDispatchMap, last, driver, everDequeued,
                       m_localVariables, m_varCounter, bound, yulNames, lastBinding>>

DispatchNext == InternalDispatch

DispatchSpec == Init /\ [][DispatchNext]_vars

\* The positions of the branches of a fragment that carry a label.
Labelled(fragment, label) ==
    {i \in DOMAIN fragment.branches : fragment.branches[i].label = label}

\* A set internalDispatch accepts: not empty, one arity, no constructor, no id 0.
ValidTargets(order) ==
    /\ order # <<>>
    /\ \A f \in Range(order) :
        /\ ast[f].arity = ast[Head(order)].arity
        /\ ~ast[f].isConstructor
        /\ f # 0

\* C12: internalDispatch on a set of N functions of one arity renders exactly
\* N case branches, one per function, keyed by the function's id and calling
\* the function by its name, plus exactly one default branch whose body is
\* invalid(); a call for a name the registry already holds returns the
\* fragment stored under it, and no stored fragment ever changes.
C12_DispatcherRendersCases ==
    [][/\ \A n \in DOMAIN m_functions :
            n \in DOMAIN m_functions' /\ m_functions'[n] = m_functions[n]
       /\ lastDispatch'.branch = "rendered" /\ lastDispatch' # lastDispatch =>
            LET fragment == lastDispatch'.ret
                order == lastDispatch'.order
            IN  /\ ValidTargets(order)
                /\ Len(fragment.branches) = Cardinality(Range(order)) + 1
                /\ Cardinality(Labelled(fragment, "default")) = 1
                /\ \A i \in Labelled(fragment, "default") :
                        fragment.branches[i].body = "invalid()"
                /\ \A f \in Range(order) :
                    /\ Cardinality(Labelled(fragment, "case " \o ToString(f))) = 1
                    /\ \A i \in Labelled(fragment, "case " \o ToString(f)) :
                        fragment.branches[i].body =
                            "fun_f_" \o ToString(f) \o "("
                                \o suffixedVariableNameList("in_", 0, ast[f].arity.in) \o ")"
                /\ m_functions'[lastDispatch'.name] = fragment
       /\ lastDispatch'.branch = "cached" /\ lastDispatch' # lastDispatch =>
            /\ lastDispatch'.name \in DOMAIN m_functions
            /\ lastDispatch'.ret = m_functions[lastDispatch'.name]
      ]_vars

\* Reached: a second call for a dispatcher of two functions returned the
\* cached fragment.
C12_Witness ==
    /\ lastDispatch.branch = "cached"
    /\ failed = NoError
    /\ Len(lastDispatch.ret.branches) = 3
    /\ Cardinality(DOMAIN m_functions) = 2

\* C13: internalDispatch fails and leaves the registry as it was whenever
\* its set is empty, holds functions of different arities, holds a
\* constructor or holds a function whose id is 0; no fragment of the registry
\* has a case for id 0.
C13_InvalidSetRegistersNothing ==
    [][/\ lastDispatch' # lastDispatch /\ ~ValidTargets(lastDispatch'.order) =>
            /\ failed' # NoError
            /\ lastDispatch'.branch = "assert"
            /\ m_functions' = m_functions
       /\ \A n \in DOMAIN m_functions' :
            Labelled(m_functions'[n], "case " \o ToString(0)) = {}
      ]_vars

\* Reached: after a dispatcher was registered, a call failed on a set whose
\* only flaw is a function with id 0.
C13_Witness ==
    /\ failed # NoError
    /\ lastDispatch.branch = "assert"
    /\ 0 \in Range(lastDispatch.order)
    /\ Cardinality(Range(lastDispatch.order)) >= 2
    /\ \A f \in Range(lastDispatch.order) :
            ast[f].arity = ast[0].arity /\ ~ast[f].isConstructor
    /\ m_functions # EmptyMap

\* C20: a call of internalDispatch whose dispatcher name is registered
\* already, made with a valid set that differs from the set the stored
\* fragment was rendered for, returns the stored fragment (the cases of the
\* first set) and leaves the registry unchanged; made with an invalid set it
\* fails, although the name is registered.
C20_MemoizedByNameOnly ==
    [][lastDispatch' # lastDispatch /\ lastDispatch'.order # <<>>
            /\ contains(internalDispatchFunctionName(ast[Head(lastDispatch'.order)].arity)) =>
            LET order == lastDispatch'.order
                stored == m_functions[internalDispatchFunctionName(ast[Head(order)].arity)]
            IN  IF ValidTargets(order)
                THEN /\ failed' = NoError
                     /\ lastDispatch'.ret = stored
                     /\ m_functions' = m_functions
                     /\ lastDispatch'.branch = "cached"
                ELSE /\ failed' # NoError
                     /\ lastDispatch'.ret = NoFragment
                     /\ m_functions' = m_functions
      ]_vars

\* Reached: a second call with a larger valid set returned the fragment of
\* the first set, which has one case only.
C20_Witness ==
    /\ lastDispatch.branch = "cached"
    /\ failed = NoError
    /\ Cardinality(Range(lastDispatch.order)) = 2
    /\ Len(lastDispatch.ret.branches) = 2
    /\ lastDispatch.ret = m_functions[lastDispatch.name]

(***************************************************************************)
(* BindingSpec: the local variable table (lines 61-77) and the counter of  *)
(* newYulVariable (lines 109-112).                                         *)
(***************************************************************************)
VariableDeclarations == 1 .. MaxVariables

\* IRVariable{_varDecl}: the representation of a declaration, named after it.
IRVariable(decl) == [baseName |-> "vloc_x_" \o to_string(decl)]

\* Mutant: a second binding replaces the first without failing.
addLocalVariableOverwriting(decl) ==
    [variables |-> put(m_localVariables, decl, IRVariable(decl)),
     ret |-> IRVariable(decl), failed |-> NoError]

\* Lines 61-68: emplace keeps an existing element and reports didInsert = false.
addLocalVariable(decl) ==
    IF count(m_localVariables, decl) = 0
    THEN [variables |-> put(m_localVariables, decl, IRVariable(decl)),
          ret |-> IRVariable(decl), failed |-> NoError]
    ELSE [variables |-> m_localVariables, ret |-> NoVariable,
          failed |-> "DuplicateBinding"]

\* Mutant: an unknown declaration yields a default representation.
localVariableDefaulting(decl) ==
    IF count(m_localVariables, decl) = 0
    THEN [ret |-> NoVariable, failed |-> NoError]
    ELSE [ret |-> m_localVariables[decl], failed |-> NoError]

\* Lines 70-77.
localVariable(decl) ==
    IF count(m_localVariables, decl) = 0
    THEN [ret |-> NoVariable, failed |-> "UnboundVariable"]
    ELSE [ret |-> m_localVariables[decl], failed |-> NoError]

\* Mutant: the counter is read before it is incremented.
newYulVariablePostIncrement ==
    [counter |-> m_varCounter + 1, ret |-> "_" \o to_string(m_varCounter)]

\* Lines 109-112: "_" + to_string(++m_varCounter).
newYulVariable ==
    [counter |-> m_varCounter + 1, ret |-> "_" \o to_string(m_varCounter + 1)]

AddLocalVariable ==
    \E decl \in VariableDeclarations :
        /\ failed = NoError
        /\ m_localVariables' = addLocalVariable(decl).variables
        /\ failed' = addLocalVariable(decl).failed
        /\ lastBinding' = [op |-> "addLocal", decl |-> decl, ret |-> addLocalVariable(decl).ret]
        /\ bound' = IF addLocalVariable(decl).failed = NoError
                    THEN put(bound, decl, addLocalVariable(decl).ret)
                    ELSE bound
        /\ UNCHANGED <<m_functions, m_functionGenerationQueue,
                       m_internalDispatchTargetCandidates, m_internalDispatchMap, last,
                       driver, everDequeued, lastDispatch, m_varCounter, yulNames>>

LocalVariable ==
    \E decl \in VariableDeclarations :
        /\ failed = NoError
        /\ failed' = localVariable(decl).failed
        /\ lastBinding' = [op |-> "local", decl |-> decl, ret |-> localVariable(decl).ret]
        /\ UNCHANGED <<m_functions, m_functionGenerationQueue,
                       m_internalDispatchTargetCandidates, m_internalDispatchMap, last,
                       driver, everDequeued, lastDispatch, m_localVariables, m_varCounter,
                       bound, yulNames>>

NewYulVariable ==
    /\ failed = NoError
    /\ Len(yulNames) < MaxYulVariables
    /\ m_varCounter' = newYulVariable.counter
    /\ yulNames' = Append(yulNames, newYulVariable.ret)
    /\ lastBinding' = [op |-> "newYulVariable", decl |-> NoFunction,
                       ret |-> [baseName |-> newYulVariable.ret]]
    /\ UNCHANGED <<ctx, driver, everDequeued, lastDispatch, m_localVariables, bound>>

BindingNext ==
    \/ AddLocalVariable
    \/ LocalVariable
    \/ NewYulVariable

BindingSpec == Init /\ [][BindingNext]_vars

\* C14: addLocal on a declaration that is bound already fails with
\* DuplicateBinding and leaves every binding as it was; addLocal on an unbound
\* declaration binds it and changes no other binding; local(decl) fails, with
\* UnboundVariable, exactly when no addLocal has bound decl, and otherwise
\* returns the representation that addLocal created.
C14_LocalBindings ==
    [][/\ lastBinding'.op = "addLocal" /\ lastBinding' # lastBinding =>
            IF lastBinding'.decl \in DOMAIN bound
            THEN /\ failed' = "DuplicateBinding"
                 /\ m_localVariables' = m_localVariables
            ELSE /\ failed' = NoError
                 /\ DOMAIN m_localVariables' = DOMAIN m_localVariables \cup {lastBinding'.decl}
                 /\ \A d \in DOMAIN m_localVariables : m_localVariables'[d] = m_localVariables[d]
                 /\ m_localVariables'[lastBinding'.decl] = lastBinding'.ret
                 /\ lastBinding'.ret.baseName = "vloc_x_" \o ToString(lastBinding'.decl)
       /\ lastBinding'.op = "local" /\ lastBinding' # lastBinding =>
            /\ failed' = "UnboundVariable" <=> lastBinding'.decl \notin DOMAIN bound
            /\ failed' = NoError <=> lastBinding'.decl \in DOMAIN bound
            /\ lastBinding'.decl \in DOMAIN bound => lastBinding'.ret = bound[lastBinding'.decl]
            /\ m_localVariables' = m_localVariables
      ]_vars

\* Reached: a second addLocal of a bound declaration failed while another
\* declaration was bound too.
C14_Witness ==
    /\ lastBinding.op = "addLocal"
    /\ failed = "DuplicateBinding"
    /\ DOMAIN m_localVariables = VariableDeclarations
    /\ m_localVariables = bound

\* C15: the names newYulVariable returned are pairwise distinct, the k-th
\* call returned "_" followed by k, the numbers handed out start at 1 and
\* grow by one with every call, and a step that is not a newYulVariable call
\* leaves the counter as it is.
C15_YulVariablesDistinct ==
    [][/\ \A i, j \in DOMAIN yulNames' : i # j => yulNames'[i] # yulNames'[j]
       /\ \A k \in DOMAIN yulNames' : yulNames'[k] = "_" \o ToString(k)
       /\ m_varCounter' = Len(yulNames')
       /\ m_varCounter' # m_varCounter =>
            /\ lastBinding'.op = "newYulVariable"
            /\ m_varCounter' > m_varCounter
            /\ m_varCounter' > 0
            /\ lastBinding'.ret.baseName = yulNames'[Len(yulNames')]
       /\ lastBinding'.op # "newYulVariable" => m_varCounter' = m_varCounter
       /\ lastBinding'.op = "newYulVariable" /\ lastBinding' # lastBinding =>
            m_varCounter' = m_varCounter + 1
      ]_vars

\* Reached: ten names were handed out, the last of two digits, with local
\* variables bound in between.
C15_Witness ==
    /\ m_varCounter = 10
    /\ yulNames[10] = "_10"
    /\ lastBinding.op = "newYulVariable"
    /\ m_localVariables # EmptyMap

\* C16: enqueue of a function whose name the registry holds leaves the
\* pending set unchanged and still returns the function's name; no step puts
\* a function whose fragment is registered into the pending set, and a
\* successful dequeue returns a function that was pending, so a generated
\* function that is not pending is never returned.
C16_GeneratedNeverInserted ==
    [][/\ last'.op = "enqueue" /\ contains(functionName(last'.fn)) =>
            /\ m_functionGenerationQueue' = m_functionGenerationQueue
            /\ failed' = NoError
            /\ last'.name = "fun_f_" \o ToString(last'.fn)
       /\ \A f \in FunctionIds :
            contains(functionName(f)) /\ f \notin m_functionGenerationQueue =>
                f \notin m_functionGenerationQueue'
       /\ last'.op = "dequeue" /\ failed' = NoError /\ last' # last =>
            last'.fn \in m_functionGenerationQueue
      ]_vars

\* Reached: a generated function that is not pending was enqueued, and the
\* pending set holds other functions only.
C16_Witness ==
    /\ last.op = "enqueue"
    /\ contains(functionName(last.fn))
    /\ last.fn \notin m_functionGenerationQueue
    /\ m_functionGenerationQueue # {}
    /\ last.name = functionName(last.fn)

\* The least id of a set of functions.
Least(functions) == CHOOSE f \in functions : \A g \in functions : f <= g

\* C19: a successful dequeue returns the least element of the pending set
\* and removes it and nothing else: what it returns is a function of the
\* contents of the pending set alone, whatever the order of the enqueues
\* that built it.
C19_DequeueLeastOfSet ==
    [][last'.op = "dequeue" /\ failed' = NoError /\ m_functionGenerationQueue # {} =>
            /\ last'.fn = Least(m_functionGenerationQueue)
            /\ m_functionGenerationQueue' =
                   m_functionGenerationQueue \ {Least(m_functionGenerationQueue)}
      ]_vars

\* Reached: a dequeue returned function 1 out of a pending set of all the
\* functions, after other dequeues.
C19_Witness ==
    /\ last.op = "dequeue"
    /\ last.fn = 1
    /\ m_functionGenerationQueue = FunctionIds \ {1}
    /\ everDequeued = FunctionIds

\* C17: registerDispatch on an arity that has neither candidates nor a
\* confirmed set enters the arity into the confirmed map with an empty set;
\* consumeDispatchMap fails with EmptyDispatchGroup exactly when registerDispatch
\* was called on some arity of which no function was registered by
\* registerCandidate before the consumption, and when it fails both maps are
\* empty already.
C17_EmptyGroupFromDispatchAlone ==
    [][/\ (/\ last'.op = "registerDispatch"
           /\ count(m_internalDispatchTargetCandidates, last'.arity) = 0
           /\ count(m_internalDispatchMap, last'.arity) = 0) =>
            /\ failed' = NoError
            /\ last'.branch = "created"
            /\ DOMAIN m_internalDispatchMap' = DOMAIN m_internalDispatchMap \cup {last'.arity}
            /\ m_internalDispatchMap'[last'.arity] = {}
            /\ m_internalDispatchTargetCandidates' = m_internalDispatchTargetCandidates
       /\ last'.op = "consumeDispatchMap" /\ pc = "loop" =>
            /\ failed' = "EmptyDispatchGroup" <=>
                    \E a \in dispatchRequested :
                        \A f \in candidatesSeen : ast[f].arity # a
            /\ failed' # "EmptyDispatchGroup" => failed' = NoError
            /\ failed' = "EmptyDispatchGroup" =>
                    /\ m_internalDispatchMap' = EmptyMap
                    /\ m_internalDispatchTargetCandidates' = EmptyMap
      ]_vars

\* Reached: the consumption failed after dispatch was requested for one
\* arity without any candidate of it, while candidates of another arity had been
\* registered.
C17_Witness ==
    /\ pc = "done"
    /\ last.op = "consumeDispatchMap"
    /\ failed = "EmptyDispatchGroup"
    /\ candidatesSeen # {}
    /\ \E a \in dispatchRequested : \A f \in candidatesSeen : ast[f].arity # a
    /\ m_internalDispatchMap = EmptyMap
    /\ m_internalDispatchTargetCandidates = EmptyMap

(***************************************************************************)
(* The driver under fairness: a generation routine returns, and the loop   *)
(* goes on to its next dequeue or, the worklist being empty, to the        *)
(* consumption of the dispatch map.                                        *)
(***************************************************************************)
FairDriverSpec ==
    /\ DriverSpec
    /\ WF_vars(GenerateDone)
    /\ WF_vars(DriverDequeue)
    /\ WF_vars(DriverConsume)

\* C18: the driver loop reaches an empty pending set and ends; a registered
\* fragment stays registered, a function whose fragment is registered and
\* that is not pending never becomes pending, and a dequeue takes the function
\* it returns out of the pending set, so that a function is dequeued at most
\* once after its fragment is registered.
C18_DriverLoopTerminates ==
    /\ <>(pc = "done" /\ m_functionGenerationQueue = {})
    /\ [][/\ \A f \in FunctionIds :
                /\ contains(functionName(f)) => functionName(f) \in DOMAIN m_functions'
                /\ contains(functionName(f)) /\ f \notin m_functionGenerationQueue =>
                        f \notin m_functionGenerationQueue'
          /\ pc = "loop" /\ pc' = "generate" =>
                /\ current' \in m_functionGenerationQueue
                /\ current' \notin m_functionGenerationQueue'
         ]_vars

\* Reached: the loop ended with an empty pending set after several
\* functions were enqueued, dequeued and registered, without any dispatch.
C18_Witness ==
    /\ pc = "done"
    /\ m_functionGenerationQueue = {}
    /\ failed = NoError
    /\ Cardinality(everQueued) >= 2
    /\ \A f \in everQueued : contains(functionName(f))
    /\ dispatchRequested = {}
    /\ candidatesSeen = {}

====
